---------------------------- MODULE Spec2Model ----------------------------
(***************************************************************************)
(* A model of odr-radiodns-bridge: the bearer URI codec of spi.py, the     *)
(* BoostInfoParser, the multiplex model builder parse_mux_config and the   *)
(* resolution passes (resolve_dns, check_warnings, resolve_slideshow,      *)
(* resolve_epg) of src/odr/radiodns/resolver.py.                           *)
(*                                                                         *)
(* Text is modelled as a sequence of one-character strings, so that        *)
(* formatting, pattern matching and number parsing are computed the way    *)
(* the Python code computes them.  An optional Python value is a sequence  *)
(* of length at most one: <<>> is None, <<v>> is the value v.              *)
(***************************************************************************)
EXTENDS Integers, Sequences, FiniteSets, TLC

VARIABLES
    \* ---- bearer codec (spi.py) ----
    bearer,      \* the bearer object handed to __str__
    uri,         \* the string handed to fromstring
    decoded,     \* the outcome of fromstring
    tampered,    \* whether uri is still the output of __str__
    cpc,         \* position of the codec scenario
    \* ---- builder and resolution passes (resolver.py, bin/...-resolver.py) ----
    cfg,                  \* the parsed configuration file
    pass,                 \* which of main()'s three passes is running
    pc,                   \* position inside the pass
    services,             \* the service list of the running pass
    lookups,              \* the arguments of the lookup_dab calls so far
    warnings,             \* what check_warnings logged
    slideshowServices,    \* the list handed to resolve_slideshow's callback
    radioepg_fqdn_list,   \* the list resolve_epg is building
    epgIdx,               \* the service resolve_epg's outer loop is at
    failure,              \* the exception that ended the run, if any
    \* ---- BoostInfoParser (resolver.py) ----
    nodes,       \* the BoostInfoTree objects; nodes[1] is parser._root
    ctx,         \* the context read() holds between lines
    fileLines,   \* the lines of the stream read so far
    ppc,         \* position of read(): "reading", "returned" or "raised"
    perr         \* the exception read() raised, if any

codecVars == <<bearer, uri, decoded, tampered, cpc>>
runVars == <<cfg, pass, pc, services, lookups, warnings, slideshowServices,
             radioepg_fqdn_list, epgIdx, failure>>

parserVars == <<nodes, ctx, fileLines, ppc, perr>>

vars == <<codecVars, runVars, parserVars>>

-----------------------------------------------------------------------------
(* Python values *)

None == <<>>
Some(x) == <<x>>
IsNone(o) == o = <<>>
The(o) == o[1]

-----------------------------------------------------------------------------
(* Integer helpers: Python's >> and & on non-negative integers *)

RECURSIVE Pow2(_)
Pow2(n) == IF n = 0 THEN 1 ELSE 2 * Pow2(n - 1)

Shr(x, n) == x \div Pow2(n)

RECURSIVE BitAnd(_, _)
BitAnd(x, y) ==
    IF x = 0 \/ y = 0 THEN 0
    ELSE (IF x % 2 = 1 /\ y % 2 = 1 THEN 1 ELSE 0) + 2 * BitAnd(x \div 2, y \div 2)

-----------------------------------------------------------------------------
(* Text helpers *)

HexChars == <<"0","1","2","3","4","5","6","7","8","9","a","b","c","d","e","f">>
UpperHexChars == <<"0","1","2","3","4","5","6","7","8","9","A","B","C","D","E","F">>
Whitespace == {" ", "\n", "\t"}

\* the digits of n in the given base, most significant first, no padding
RECURSIVE Digits(_, _, _)
Digits(n, base, chars) ==
    IF n < base THEN <<chars[n + 1]>>
    ELSE Digits(n \div base, base, chars) \o <<chars[(n % base) + 1]>>

RECURSIVE Zeros(_)
Zeros(k) == IF k <= 0 THEN <<>> ELSE <<"0">> \o Zeros(k - 1)

\* '{:0<width>x}'.format(n), n >= 0: a minimum width, zero padded
FormatHex(n, width) ==
    LET d == Digits(n, 16, HexChars) IN Zeros(width - Len(d)) \o d

\* '{:0<width>d}'.format(n), n >= 0
FormatDec(n, width) ==
    LET d == Digits(n, 10, HexChars) IN Zeros(width - Len(d)) \o d

\* '%X' % n
FormatUpperHex(n) == Digits(n, 16, UpperHexChars)

RECURSIVE LStrip(_)
LStrip(s) == IF s # <<>> /\ Head(s) \in Whitespace THEN LStrip(Tail(s)) ELSE s

RECURSIVE RStrip(_)
RStrip(s) ==
    IF s # <<>> /\ s[Len(s)] \in Whitespace THEN RStrip(SubSeq(s, 1, Len(s) - 1)) ELSE s

Strip(s) == RStrip(LStrip(s))

\* the value of one digit character, or -1 when it is no digit of any base
DigitVal(c) ==
    IF \E i \in 1..16 : HexChars[i] = c
    THEN (CHOOSE i \in 1..16 : HexChars[i] = c) - 1
    ELSE IF \E i \in 1..16 : UpperHexChars[i] = c
    THEN (CHOOSE i \in 1..16 : UpperHexChars[i] = c) - 1
    ELSE -1

IsDigitOf(c, base) == DigitVal(c) >= 0 /\ DigitVal(c) < base

RECURSIVE DigitsValue(_, _, _)
DigitsValue(s, base, acc) ==
    IF s = <<>> THEN acc
    ELSE DigitsValue(Tail(s), base, acc * base + DigitVal(Head(s)))

\* the digits of int(): at least one, all of the base
ParseDigits(d, base, negative) ==
    IF d # <<>> /\ \A i \in 1..Len(d) : IsDigitOf(d[i], base)
    THEN [ok |-> TRUE,
          val |-> IF negative THEN 0 - DigitsValue(d, base, 0) ELSE DigitsValue(d, base, 0)]
    ELSE [ok |-> FALSE, val |-> 0]

\* after the sign: base 16 allows a 0x prefix
ParseUnsigned(u, base, negative) ==
    IF base = 16 /\ Len(u) >= 2 /\ u[1] = "0" /\ u[2] \in {"x", "X"}
    THEN ParseDigits(SubSeq(u, 3, Len(u)), base, negative)
    ELSE ParseDigits(u, base, negative)

\* after the surrounding whitespace: an optional sign
ParseSigned(t, base) ==
    IF t # <<>> /\ Head(t) \in {"+", "-"}
    THEN ParseUnsigned(Tail(t), base, Head(t) = "-")
    ELSE ParseUnsigned(t, base, FALSE)

\* Python's int(text, base) for base 10 and 16: surrounding whitespace, an
\* optional sign and (base 16) an optional 0x prefix are accepted; anything
\* else raises ValueError ([ok |-> FALSE]).
ParseInt(text, base) == ParseSigned(Strip(text), base)

-----------------------------------------------------------------------------
(* spi.py: DabBearer, FmBearer, IpBearer *)

\* DabBearer.__str__ with the country nibble taken from the wrong bits of eid
DabBearerStrWrongNibble(b) ==
    LET gcc == BitAnd(Shr(b.eid, 8), 3840) + b.ecc
    IN  <<"d","a","b",":">> \o FormatHex(gcc, 3) \o <<".">>
        \o FormatHex(b.eid, 4) \o <<".">> \o FormatHex(b.sid, 4)
        \o <<".">> \o FormatHex(b.scids, 1)

\* DabBearer.__str__
DabBearerStr(b) ==
    LET gcc == BitAnd(Shr(b.eid, 4), 3840) + b.ecc
        base == <<"d","a","b",":">> \o FormatHex(gcc, 3) \o <<".">>
                \o FormatHex(b.eid, 4) \o <<".">> \o FormatHex(b.sid, 4)
                \o <<".">> \o FormatHex(b.scids, 1)
    IN  IF ~IsNone(b.xpad) THEN base \o <<".">> \o FormatHex(The(b.xpad), 4)
        ELSE base

\* FmBearer.__str__ ; frequency/10 is Python 2 integer division
FmBearerStr(b) ==
    LET gcc == BitAnd(Shr(b.pi, 4), 3840) + b.ecc
    IN  <<"f","m",":">> \o FormatHex(gcc, 3) \o <<".">> \o FormatHex(b.pi, 4)
        \o <<".">> \o FormatDec(b.frequency \div 10, 5)

\* IpBearer.__str__
IpBearerStr(b) == b.uri

BearerStr(b) ==
    CASE b.kind = "dab" -> DabBearerStr(b)
      [] b.kind = "fm"  -> FmBearerStr(b)
      [] b.kind = "ip"  -> IpBearerStr(b)

\* Bearer.__eq__ of the three classes: equality of the string forms
BearerEq(a, b) == BearerStr(a) = BearerStr(b)

\* the regular expression's '.': any character but a newline
Dot(c) == c # "\n"

AllDot(s) == \A i \in 1..Len(s) : Dot(s[i])

\* the character class [\.(.+?)] that ends the DAB pattern
DabTailClass == {".", "(", "+", "?", ")"}

\* the number of groups of the DAB pattern: the text after the fourth group is
\* a character class, not a group
DabPatternGroups == 4

\* ^dab:(.{3})\.(.{4})\.(.{4})\.(.{1})[\.(.+?)]{0,1}$ ; '$' also matches before
\* a final newline
DabPatternMatches(s) ==
    /\ Len(s) >= 19
    /\ SubSeq(s, 1, 4) = <<"d","a","b",":">>
    /\ AllDot(SubSeq(s, 5, 7))   /\ s[8] = "."
    /\ AllDot(SubSeq(s, 9, 12))  /\ s[13] = "."
    /\ AllDot(SubSeq(s, 14, 17)) /\ s[18] = "."
    /\ Dot(s[19])
    /\ LET rest == SubSeq(s, 20, Len(s))
       IN  \/ rest = <<>>
           \/ rest = <<"\n">>
           \/ Len(rest) = 1 /\ rest[1] \in DabTailClass
           \/ Len(rest) = 2 /\ rest[1] \in DabTailClass /\ rest[2] = "\n"

ValueError == [ok |-> FALSE, err |-> "ValueError"]
AttributeError == [ok |-> FALSE, err |-> "AttributeError"]
KeyError == [ok |-> FALSE, err |-> "KeyError"]
TypeError == [ok |-> FALSE, err |-> "TypeError"]
Ok(v) == [ok |-> TRUE, val |-> v]

DabBearer(ecc, eid, sid, scids, xpad) ==
    [kind |-> "dab", ecc |-> ecc, eid |-> eid, sid |-> sid, scids |-> scids,
     xpad |-> xpad]

FmBearer(ecc, pi, frequency) ==
    [kind |-> "fm", ecc |-> ecc, pi |-> pi, frequency |-> frequency]

IpBearer(u) == [kind |-> "ip", uri |-> u]

\* DabBearer.fromstring
DabBearerFromString(s) ==
    IF ~DabPatternMatches(s) THEN ValueError
    ELSE LET ecc   == ParseInt(Tail(SubSeq(s, 5, 7)), 16)
             eid   == ParseInt(SubSeq(s, 9, 12), 16)
             sid   == ParseInt(SubSeq(s, 14, 17), 16)
             scids == ParseInt(SubSeq(s, 19, 19), 16)
             \* len(matcher.groups()) > 4 never holds: xpad stays None
             xpad  == IF DabPatternGroups > 4
                      THEN ParseInt(SubSeq(s, 21, Len(s)), 10)
                      ELSE [ok |-> TRUE, val |-> 0]
         IN  IF ecc.ok /\ eid.ok /\ sid.ok /\ scids.ok /\ xpad.ok
             THEN [ok |-> TRUE,
                   bearer |-> DabBearer(ecc.val, eid.val, sid.val, scids.val,
                                 IF DabPatternGroups > 4 THEN Some(xpad.val) ELSE None)]
             ELSE ValueError

\* fm:(.{3})\.(.{4})\.(.{5}) at position i of s
FmPatternMatchesAt(s, i) ==
    /\ i + 16 <= Len(s)
    /\ SubSeq(s, i, i + 2) = <<"f","m",":">>
    /\ AllDot(SubSeq(s, i + 3, i + 5))   /\ s[i + 6] = "."
    /\ AllDot(SubSeq(s, i + 7, i + 10))  /\ s[i + 11] = "."
    /\ AllDot(SubSeq(s, i + 12, i + 16))

\* FmBearer.fromstring ; pattern.search takes the leftmost match anywhere
FmBearerFromString(s) ==
    IF ~\E i \in 1..Len(s) : FmPatternMatchesAt(s, i) THEN ValueError
    ELSE LET i   == CHOOSE j \in 1..Len(s) :
                        /\ FmPatternMatchesAt(s, j)
                        /\ \A k \in 1..(j - 1) : ~FmPatternMatchesAt(s, k)
             ecc == ParseInt(Tail(SubSeq(s, i + 3, i + 5)), 16)
             pi  == ParseInt(SubSeq(s, i + 7, i + 10), 16)
             frq == ParseInt(SubSeq(s, i + 12, i + 16), 10)
         IN  IF ecc.ok /\ pi.ok /\ frq.ok
             THEN [ok |-> TRUE, bearer |-> FmBearer(ecc.val, pi.val, frq.val * 10)]
             ELSE ValueError

\* fromstring of the class of the given kind; IpBearer defines none
BearerFromString(kind, s) ==
    CASE kind = "dab" -> DabBearerFromString(s)
      [] kind = "fm"  -> FmBearerFromString(s)
      [] kind = "ip"  -> AttributeError

-----------------------------------------------------------------------------
(* resolver.py: BoostInfoTree and BoostInfoParser.  The trees live in the    *)
(* sequence nodes and refer to each other by position; NoneRef stands for    *)
(* None and ParserRef for the BoostInfoParser object that _reset stores in   *)
(* _root.lastChild.                                                          *)

NoneRef == 0
ParserRef == -1
RootRef == 1

\* BoostInfoTree.__init__
BoostInfoTree(value, parent) ==
    [value |-> value, parent |-> parent, subTrees |-> <<>>, lastChild |-> NoneRef]

\* BoostInfoParser._reset
ParserReset == <<[BoostInfoTree(None, NoneRef) EXCEPT !.lastChild = ParserRef]>>

\* treeName in self.subTrees
HasKey(subTrees, treeName) == \E n \in 1..Len(subTrees) : subTrees[n].key = treeName

\* AddSubtree storing a fresh one-element list under the key every time
AddSubtreeOverwrite(subTrees, treeName, newTree) ==
    IF HasKey(subTrees, treeName)
    THEN [n \in 1..Len(subTrees) |->
             IF subTrees[n].key = treeName
             THEN [subTrees[n] EXCEPT !.trees = <<newTree>>]
             ELSE subTrees[n]]
    ELSE Append(subTrees, [key |-> treeName, trees |-> <<newTree>>])

\* the OrderedDict subTrees after createSubtree stored the new tree: appended
\* to the list of a key already there, else a new key at the end
AddSubtree(subTrees, treeName, newTree) ==
    IF HasKey(subTrees, treeName)
    THEN [n \in 1..Len(subTrees) |->
             IF subTrees[n].key = treeName
             THEN [subTrees[n] EXCEPT !.trees = Append(@, newTree)]
             ELSE subTrees[n]]
    ELSE Append(subTrees, [key |-> treeName, trees |-> <<newTree>>])

\* BoostInfoTree.createSubtree on the tree at position self
CreateSubtree(trees, self, treeName, value) ==
    Append([trees EXCEPT ![self].subTrees = AddSubtree(@, treeName, Len(trees) + 1),
                         ![self].lastChild = Len(trees) + 1],
           BoostInfoTree(value, self))

\* BoostInfoTree.__getitem__: the list stored under key, or KeyError
TreeGetItem(trees, self, key) ==
    IF HasKey(trees[self].subTrees, key)
    THEN Ok((CHOOSE e \in {trees[self].subTrees[n] : n \in 1..Len(trees[self].subTrees)} :
                e.key = key).trees)
    ELSE KeyError

\* str.find for one character: the 0-based index of its first occurrence, or -1
Find(s, c) ==
    IF \E i \in 1..Len(s) : s[i] = c
    THEN (CHOOSE i \in 1..Len(s) : s[i] = c /\ \A j \in 1..(i - 1) : s[j] # c) - 1
    ELSE -1

Quotes == {"\"", "'"}

\* the tokens after the character at i was read by shlex (posix mode,
\* whitespace_split): quote is the open quote or "", inTok tells whether a
\* token has been started
RECURSIVE ShlexScan(_, _, _, _, _, _)
ShlexScan(s, i, cur, inTok, quote, acc) ==
    IF i > Len(s)
    THEN IF quote # "" THEN ValueError
         ELSE Ok(IF inTok THEN Append(acc, cur) ELSE acc)
    ELSE IF quote # ""
         THEN IF s[i] = quote THEN ShlexScan(s, i + 1, cur, TRUE, "", acc)
              ELSE ShlexScan(s, i + 1, Append(cur, s[i]), TRUE, quote, acc)
    ELSE IF s[i] \in Whitespace
         THEN ShlexScan(s, i + 1, <<>>, FALSE, "", IF inTok THEN Append(acc, cur) ELSE acc)
    ELSE IF s[i] \in Quotes THEN ShlexScan(s, i + 1, cur, TRUE, s[i], acc)
    ELSE ShlexScan(s, i + 1, Append(cur, s[i]), TRUE, "", acc)

\* shlex.split(string)
ShlexSplit(s) == ShlexScan(s, 1, <<>>, FALSE, "", <<>>)

\* string[:commentStart].strip() when the line holds a ";"
CutComment(string) ==
    IF Find(string, ";") >= 0 THEN Strip(SubSeq(string, 1, Find(string, ";")))
    ELSE string

\* the parser between two lines: the trees, the context, and whether an
\* exception is on its way out of read()
Parsing(trees, context) == [ok |-> TRUE, nodes |-> trees, ctx |-> context, err |-> ""]
Raised(st, r) == [st EXCEPT !.ok = FALSE, !.err = r.err]

\* context = context.lastChild
EnterLastChild(st) ==
    IF st.ctx < RootRef THEN Raised(st, AttributeError)
    ELSE [st EXCEPT !.ctx = st.nodes[st.ctx].lastChild]

\* context = context.parent
LeaveToParent(st) ==
    IF st.ctx < RootRef THEN Raised(st, AttributeError)
    ELSE [st EXCEPT !.ctx = st.nodes[st.ctx].parent]

\* the key line: key = strings[0], val = strings[1] or None, createSubtree
KeyLine(strings, st) ==
    IF ~strings.ok THEN Raised(st, strings)
    ELSE IF st.ctx < RootRef THEN Raised(st, AttributeError)
    ELSE [st EXCEPT !.nodes =
             CreateSubtree(@, st.ctx, strings.val[1],
                           IF Len(strings.val) > 1 THEN Some(strings.val[2]) ELSE None)]

RECURSIVE ParseLine(_, _)

\* sectionStart > 0 with the line cut one character late: the brace is lost
SplitAfterBrace(string, sectionStart, st) ==
    ParseLine(SubSeq(string, sectionStart + 2, Len(string)),
              ParseLine(SubSeq(string, 1, sectionStart), st))

\* sectionStart > 0: firstPart = string[:sectionStart], secondPart the rest
SplitAtBrace(string, sectionStart, st) ==
    ParseLine(SubSeq(string, sectionStart + 1, Len(string)),
              ParseLine(SubSeq(string, 1, sectionStart), st))

\* _parseLine after the comment was cut
ParseCut(string, st) ==
    IF Len(string) = 0 THEN st
    ELSE IF Find(string, "{") > 0 THEN SplitAtBrace(string, Find(string, "{"), st)
    ELSE IF string[1] = "{" THEN EnterLastChild(st)
    ELSE IF string[1] = "}" THEN LeaveToParent(st)
    ELSE KeyLine(ShlexSplit(string), st)

\* BoostInfoParser._parseLine(string, context); an exception of an inner call
\* goes through every caller
ParseLine(string, st) ==
    IF ~st.ok THEN st ELSE ParseCut(CutComment(string), st)

-----------------------------------------------------------------------------
(* The parsed configuration as parse_mux_config reads it.  A section is the  *)
(* sequence of its distinctly named blocks in declaration order (the keys of *)
(* subTrees, each read through [name][0]).  A field of a block is Absent     *)
(* (the key is not there: KeyError), KeyOnly (a key line without a value:    *)
(* getValue() is None) or Val(text).  Text that the code hands to int() is a *)
(* sequence of characters; text that is only compared or copied is a string. *)

Absent == <<>>
KeyOnly == <<None>>
Val(t) == <<Some(t)>>
IsAbsent(f) == f = <<>>
\* node.getValue() of the first node under the key
GetValue(f) == f[1]

\* the outcome of int(): the number, or ValueError
IntResult(r) == IF r.ok THEN Ok(r.val) ELSE ValueError

\* int(root[...][key][0].getValue(), base)
FieldInt(f, base) ==
    IF IsAbsent(f) THEN KeyError
    ELSE IF IsNone(GetValue(f)) THEN TypeError
    ELSE IntResult(ParseInt(The(GetValue(f)), base))

\* int(value) of a value already read from the tree
ValueInt(v, base) ==
    IF IsNone(v) THEN TypeError
    ELSE IntResult(ParseInt(The(v), base))

\* one round of the subchannels loop: only packet and enhancedpacket
\* subchannels are kept, and only for those are bitrate and inputuri read
KeepSubchannel(sc, acc) ==
    IF IsAbsent(sc.type) THEN KeyError
    ELSE IF GetValue(sc.type) \in {Some("packet"), Some("enhancedpacket")}
    THEN IF IsAbsent(sc.bitrate) \/ IsAbsent(sc.inputuri) THEN KeyError
         ELSE Ok(Append(acc, [subchannel |-> sc.name,
                              type |-> The(GetValue(sc.type)),
                              bitrate |-> GetValue(sc.bitrate),
                              inputuri |-> GetValue(sc.inputuri)]))
    ELSE Ok(acc)

RECURSIVE KeepSubchannels(_, _, _)
KeepSubchannelsFrom(subs, i, r) ==
    IF ~r.ok THEN r ELSE KeepSubchannels(subs, i, r.val)

\* for subchannel in root["subchannels"][0].subTrees
KeepSubchannels(subs, i, acc) ==
    IF i > Len(subs) THEN Ok(acc)
    ELSE KeepSubchannelsFrom(subs, i + 1, KeepSubchannel(subs[i], acc))

\* a figtype 7 component of type 60, its address read
KeepEpgComponentAt(c, acc, ad) ==
    IF ~ad.ok THEN ad
    ELSE Ok(Append(acc, [service |-> GetValue(c.service), figtype |-> 7,
                         subchannel |-> GetValue(c.subchannel),
                         address |-> ad.val]))

\* a figtype 7 component, its type read: only type 60 is kept
KeepEpgComponent(c, acc, ty) ==
    IF ~ty.ok THEN ty
    ELSE IF ty.val = 60
    THEN IF IsAbsent(c.service) \/ IsAbsent(c.subchannel) THEN KeyError
         ELSE KeepEpgComponentAt(c, acc, FieldInt(c.address, 16))
    ELSE Ok(acc)

\* a component, its figtype read
KeepComponentOf(c, acc, fig) ==
    IF ~fig.ok THEN fig
    ELSE IF fig.val = 2
    THEN IF IsAbsent(c.service) THEN KeyError
         ELSE Ok(Append(acc, [service |-> GetValue(c.service), figtype |-> 2,
                              subchannel |-> None, address |-> 0]))
    ELSE IF fig.val = 7 THEN KeepEpgComponent(c, acc, FieldInt(c.type, 10))
    ELSE Ok(acc)

\* one round of the components loop:
\* try: figtype = int(..., 16)  except KeyError: figtype = None
KeepComponent(c, acc) ==
    IF IsAbsent(c.figtype) THEN Ok(acc)
    ELSE KeepComponentOf(c, acc, FieldInt(c.figtype, 16))

RECURSIVE KeepComponents(_, _, _)
KeepComponentsFrom(comps, i, r) ==
    IF ~r.ok THEN r ELSE KeepComponents(comps, i, r.val)

\* for component in root["components"][0].subTrees
KeepComponents(comps, i, acc) ==
    IF i > Len(comps) THEN Ok(acc)
    ELSE KeepComponentsFrom(comps, i + 1, KeepComponent(comps[i], acc))

\* the state of the per-service scan before any component is looked at
NoEpg ==
    [ok |-> TRUE, hasEPG |-> FALSE, hasSlideshow |-> FALSE, EPGpacketSize |-> None,
     EPGinputURI |-> None, EPGpacketAddress |-> None]

\* the three EPG fields, set from a matching component and subchannel
SetEpgFields(sub, comp, st, br) ==
    IF ~br.ok THEN br
    ELSE [st EXCEPT !.EPGpacketAddress = Some(comp.address),
                    !.EPGpacketSize = Some(br.val * 3),
                    !.EPGinputURI = sub.inputuri]

\* if subchannel["subchannel"] == component["subchannel"]
MatchSubchannel(sub, comp, st) ==
    IF Some(sub.subchannel) = comp.subchannel
    THEN SetEpgFields(sub, comp, st, ValueInt(sub.bitrate, 10))
    ELSE st

\* for subchannel in subchannels
RECURSIVE ScanSubchannels(_, _, _, _)
ScanSubchannels(subs, j, comp, st) ==
    IF j > Len(subs) \/ ~st.ok THEN st
    ELSE ScanSubchannels(subs, j + 1, comp, MatchSubchannel(subs[j], comp, st))

\* ScanComponent that forgets hasEPG = True for a figtype 7 component
ScanComponentNoFlag(comp, subs, service, st) ==
    IF comp.service # Some(service) THEN st
    ELSE IF comp.figtype = 2 THEN [st EXCEPT !.hasSlideshow = TRUE]
    ELSE IF comp.figtype = 7 THEN ScanSubchannels(subs, 1, comp, st)
    ELSE st

\* if component["service"] == service
ScanComponent(comp, subs, service, st) ==
    IF comp.service # Some(service) THEN st
    ELSE IF comp.figtype = 2 THEN [st EXCEPT !.hasSlideshow = TRUE]
    ELSE IF comp.figtype = 7
    THEN ScanSubchannels(subs, 1, comp, [st EXCEPT !.hasEPG = TRUE])
    ELSE st

\* for component in components
RECURSIVE ScanComponents(_, _, _, _, _)
ScanComponents(comps, i, subs, service, st) ==
    IF i > Len(comps) \/ ~st.ok THEN st
    ELSE ScanComponents(comps, i + 1, subs, service,
                        ScanComponent(comps[i], subs, service, st))

\* ServiceEcc with the service's own ecc tried before the size of the SId
ServiceEccOverrideFirst(sv, service_id, ensemble_ecc) ==
    IF ~IsAbsent(sv.ecc) THEN FieldInt(sv.ecc, 16)
    ELSE IF service_id > 65535 THEN Ok(Shr(service_id, 24))
    ELSE Ok(ensemble_ecc)

\* the extended country code of a service: a long SId carries it in its top
\* byte; a short SId takes the service's own ecc if given (except KeyError:)
\* else the ensemble's
ServiceEcc(sv, service_id, ensemble_ecc) ==
    IF service_id > 65535 THEN Ok(Shr(service_id, 24))
    ELSE IF IsAbsent(sv.ecc) THEN Ok(ensemble_ecc)
    ELSE FieldInt(sv.ecc, 16)

\* services.append({...})
BuildServiceRecord(sv, ensemble_id, service_id, service_ecc, st) ==
    IF ~st.ok THEN st
    ELSE IF IsAbsent(sv.label) THEN KeyError
    ELSE Ok([service |-> sv.name,
             label |-> GetValue(sv.label),
             bearer |-> DabBearer(service_ecc, ensemble_id, service_id, 0, None),
             hasEPG |-> st.hasEPG,
             hasSlideshow |-> st.hasSlideshow,
             EPGpacketSize |-> st.EPGpacketSize,
             EPGinputURI |-> st.EPGinputURI,
             EPGpacketAddress |-> st.EPGpacketAddress,
             dns |-> None])

BuildServiceScan(sv, comps, subs, ensemble_id, service_id, ecc) ==
    IF ~ecc.ok THEN ecc
    ELSE BuildServiceRecord(sv, ensemble_id, service_id, ecc.val,
                            ScanComponents(comps, 1, subs, sv.name, NoEpg))

BuildServiceOf(sv, comps, subs, ensemble_ecc, ensemble_id, sid) ==
    IF ~sid.ok THEN sid
    ELSE BuildServiceScan(sv, comps, subs, ensemble_id, sid.val,
                          ServiceEcc(sv, sid.val, ensemble_ecc))

\* one round of the services loop
BuildService(sv, comps, subs, ensemble_ecc, ensemble_id) ==
    BuildServiceOf(sv, comps, subs, ensemble_ecc, ensemble_id, FieldInt(sv.id, 16))

RECURSIVE BuildServices(_, _, _, _, _, _, _)
BuildServicesFrom(svs, i, comps, subs, ensemble_ecc, ensemble_id, acc, r) ==
    IF ~r.ok THEN r
    ELSE BuildServices(svs, i, comps, subs, ensemble_ecc, ensemble_id, Append(acc, r.val))

\* for service in root["services"][0].subTrees
BuildServices(svs, i, comps, subs, ensemble_ecc, ensemble_id, acc) ==
    IF i > Len(svs) THEN Ok(acc)
    ELSE BuildServicesFrom(svs, i + 1, comps, subs, ensemble_ecc, ensemble_id, acc,
             BuildService(svs[i], comps, subs, ensemble_ecc, ensemble_id))

ParseMuxSections(c, ensemble_ecc, ensemble_id, subs, comps) ==
    IF ~subs.ok THEN subs
    ELSE IF ~comps.ok THEN comps
    ELSE BuildServices(c.services, 1, comps.val, subs.val, ensemble_ecc, ensemble_id, <<>>)

ParseMuxEnsemble(c, ensemble_ecc, ensemble_id) ==
    IF ~ensemble_ecc.ok THEN ensemble_ecc
    ELSE IF ~ensemble_id.ok THEN ensemble_id
    ELSE ParseMuxSections(c, ensemble_ecc.val, ensemble_id.val,
                          KeepSubchannels(c.subchannels, 1, <<>>),
                          KeepComponents(c.components, 1, <<>>))

\* parse_mux_config, from the parsed tree on: the list of services, or the
\* exception that ends it
ParseMuxConfig(c) ==
    ParseMuxEnsemble(c, FieldInt(c.ensemble.ecc, 16), FieldInt(c.ensemble.id, 16))

-----------------------------------------------------------------------------
(* resolve_dns, resolve_slideshow, resolve_epg, check_warnings.              *)
(* A DnsRecord is what the resolver hands back: None, or                     *)
(* [authorative_fqdn |-> string, applications |-> a function from some       *)
(* application names to [supported |-> BOOLEAN, servers |-> sequence]].      *)

\* the country code resolve_dns hands to lookup_dab
LookupGcc(b) ==
    IF b.sid > 65535
    THEN BitAnd(Shr(b.sid, 12), 3840) + Shr(b.sid, 24)
    ELSE BitAnd(Shr(b.sid, 4), 3840) + b.ecc

\* the four arguments of radiodns.lookup_dab
LookupArgs(b) ==
    <<FormatUpperHex(LookupGcc(b)), FormatUpperHex(b.eid),
      FormatUpperHex(b.sid), FormatUpperHex(b.scids)>>

\* service["dns"]["applications"][name]["supported"], with the caller's
\* try/except: the default when there is no record or no such application
SupportedOr(dns, name, default) ==
    IF IsNone(dns) THEN default
    ELSE IF name \notin DOMAIN The(dns).applications THEN default
    ELSE The(dns).applications[name].supported

\* SlideshowRound asking for both visual applications instead of either
SlideshowRoundBoth(list, sv) ==
    LET radiovis == SupportedOr(sv.dns, "radiovis", FALSE)
        radiovis_http == SupportedOr(sv.dns, "radiovis-http", FALSE)
    IN  IF sv.hasSlideshow /\ (radiovis /\ radiovis_http)
        THEN Append(list, [fqdn |-> The(sv.dns).authorative_fqdn,
                           bearer |-> sv.bearer,
                           radiovis |-> radiovis,
                           radiovis_http |-> radiovis_http])
        ELSE list

\* one round of the resolve_slideshow loop: the list with the service's entry
\* appended, or unchanged ([] of the except branches is falsy like False)
SlideshowRound(list, sv) ==
    LET radiovis == SupportedOr(sv.dns, "radiovis", FALSE)
        radiovis_http == SupportedOr(sv.dns, "radiovis-http", FALSE)
    IN  IF sv.hasSlideshow /\ (radiovis \/ radiovis_http)
        THEN Append(list, [fqdn |-> The(sv.dns).authorative_fqdn,
                           bearer |-> sv.bearer,
                           radiovis |-> radiovis,
                           radiovis_http |-> radiovis_http])
        ELSE list

RECURSIVE SlideshowLoop(_, _, _)
SlideshowLoop(svs, i, list) ==
    IF i > Len(svs) THEN list
    ELSE SlideshowLoop(svs, i + 1, SlideshowRound(list, svs[i]))

\* the application name resolve_epg is left with for a service: each try
\* block assigns app once the "supported" entry could be read
EpgApp(dns) ==
    IF IsNone(dns) THEN ""
    ELSE IF "radiospi" \in DOMAIN The(dns).applications THEN "radiospi"
    ELSE IF "radioepg" \in DOMAIN The(dns).applications THEN "radioepg"
    ELSE ""

EpgFqdn(dns) == IF IsNone(dns) THEN "" ELSE The(dns).authorative_fqdn

\* EpgCollect keeping the server list of the first contributing service
RECURSIVE EpgCollectFirstServers(_, _, _, _, _)
EpgCollectFirstServers(svs, j, app, fqdn, acc) ==
    IF j > Len(svs) \/ ~acc.ok THEN acc
    ELSE LET d == svs[j].dns IN
         IF IsNone(d) THEN EpgCollectFirstServers(svs, j + 1, app, fqdn, acc)
         ELSE IF app \notin DOMAIN The(d).applications THEN KeyError
         ELSE IF ~The(d).applications[app].supported
              THEN EpgCollectFirstServers(svs, j + 1, app, fqdn, acc)
         ELSE IF fqdn = The(d).authorative_fqdn
              THEN EpgCollectFirstServers(svs, j + 1, app, fqdn,
                       [acc EXCEPT !.bearers = Append(@, svs[j].bearer),
                                   !.servers = IF acc.bearers = <<>>
                                               THEN The(d).applications[app].servers
                                               ELSE @])
         ELSE EpgCollectFirstServers(svs, j + 1, app, fqdn, acc)

\* the inner loop of resolve_epg over all services, for a new fqdn
RECURSIVE EpgCollect(_, _, _, _, _)
EpgCollect(svs, j, app, fqdn, acc) ==
    IF j > Len(svs) \/ ~acc.ok THEN acc
    ELSE LET d == svs[j].dns IN
         IF IsNone(d) THEN EpgCollect(svs, j + 1, app, fqdn, acc)
         ELSE IF app \notin DOMAIN The(d).applications THEN KeyError
         ELSE IF ~The(d).applications[app].supported
              THEN EpgCollect(svs, j + 1, app, fqdn, acc)
         ELSE IF fqdn = The(d).authorative_fqdn
              THEN EpgCollect(svs, j + 1, app, fqdn,
                       [acc EXCEPT !.bearers = Append(@, svs[j].bearer),
                                   !.servers = The(d).applications[app].servers])
         ELSE EpgCollect(svs, j + 1, app, fqdn, acc)

\* EpgRound without the search for an entry that already has the fqdn
EpgRoundNoSearch(list, svs, sv) ==
    LET radioepg_fqdn == EpgFqdn(sv.dns)
        hasEPG == SupportedOr(sv.dns, "radioepg", FALSE)
        hasSPI == SupportedOr(sv.dns, "radiospi", FALSE)
        app == EpgApp(sv.dns)
    IN  IF radioepg_fqdn # "" /\ (hasEPG \/ hasSPI)
        THEN LET c == EpgCollect(svs, 1, app, radioepg_fqdn,
                                 [ok |-> TRUE, bearers |-> <<>>, servers |-> <<>>])
             IN  IF ~c.ok THEN c
                 ELSE Ok(Append(list, [fqdn |-> radioepg_fqdn, bearers |-> c.bearers,
                                       servers |-> c.servers, app |-> app]))
        ELSE Ok(list)

\* one round of the outer loop of resolve_epg: the new list, or the exception
EpgRound(list, svs, sv) ==
    LET radioepg_fqdn == EpgFqdn(sv.dns)
        hasEPG == SupportedOr(sv.dns, "radioepg", FALSE)
        hasSPI == SupportedOr(sv.dns, "radiospi", FALSE)
        app == EpgApp(sv.dns)
        adding == \A k \in 1..Len(list) : list[k].fqdn # radioepg_fqdn
    IN  IF radioepg_fqdn # "" /\ (hasEPG \/ hasSPI) /\ adding
        THEN LET c == EpgCollect(svs, 1, app, radioepg_fqdn,
                                 [ok |-> TRUE, bearers |-> <<>>, servers |-> <<>>])
             IN  IF ~c.ok THEN c
                 ELSE Ok(Append(list, [fqdn |-> radioepg_fqdn, bearers |-> c.bearers,
                                       servers |-> c.servers, app |-> app]))
        ELSE Ok(list)

\* len(service["dns"]["applications"][name]["supported"]) > 0 inside
\* try/except: "supported" is a bool, len() of a bool raises TypeError, and
\* the except branch leaves False
LenSupportedPositive(dns, name) ==
    IF IsNone(dns) THEN FALSE
    ELSE IF name \notin DOMAIN The(dns).applications THEN FALSE
    ELSE LET v == The(dns).applications[name].supported
         IN  IF v \in BOOLEAN THEN FALSE ELSE Len(v) > 0

\* the warnings one service adds in check_warnings
ServiceWarnings(sv) ==
    LET radiovis == LenSupportedPositive(sv.dns, "radiovis")
        radiovis_http == LenSupportedPositive(sv.dns, "radiovis-http")
    IN  (IF ~sv.hasSlideshow /\ (radiovis \/ radiovis_http)
         THEN <<[kind |-> "OrphanVisualService", service |-> sv.service]>> ELSE <<>>)
        \o
        (IF sv.hasSlideshow /\ ~radiovis /\ ~radiovis_http
         THEN <<[kind |-> "OrphanSlideshowComponent", service |-> sv.service]>> ELSE <<>>)

RECURSIVE WarningsLoop(_, _, _)
WarningsLoop(svs, i, acc) ==
    IF i > Len(svs) THEN acc
    ELSE WarningsLoop(svs, i + 1, acc \o ServiceWarnings(svs[i]))

\* EPGtempURI: the EPGinputURI of every service with hasEPG, as a set
EpgTempUri(svs) == {svs[i].EPGinputURI : i \in {k \in 1..Len(svs) : svs[k].hasEPG}}

\* check_warnings: everything it logs, in order
CheckWarningsLog(svs) ==
    WarningsLoop(svs, 1, <<>>)
    \o (IF Cardinality(EpgTempUri(svs)) > 1
        THEN <<[kind |-> "MultipleEpgInputSources", uris |-> EpgTempUri(svs)]>>
        ELSE <<>>)

-----------------------------------------------------------------------------
(* main(): check_warnings(resolve_dns(parse_mux_config(f))), then            *)
(* resolve_slideshow(f, ...), then resolve_epg(f, ...); each of the three    *)
(* parses the file and calls the resolver again.                             *)

CodecIdle ==
    /\ bearer = None /\ uri = <<>> /\ decoded = None /\ tampered = FALSE
    /\ cpc = "idle"

RunIdle ==
    /\ cfg = None /\ pass = "none" /\ pc = "idle" /\ services = <<>>
    /\ lookups = <<>> /\ warnings = <<>> /\ slideshowServices = <<>>
    /\ radioepg_fqdn_list = <<>> /\ epgIdx = 0 /\ failure = None

ParserIdle ==
    /\ nodes = <<>> /\ ctx = 0 /\ fileLines = <<>> /\ ppc = "idle" /\ perr = None

RunStart ==
    /\ pass = "warnings" /\ pc = "parse" /\ services = <<>>
    /\ lookups = <<>> /\ warnings = <<>> /\ slideshowServices = <<>>
    /\ radioepg_fqdn_list = <<>> /\ epgIdx = 1 /\ failure = None

\* the state after parse_mux_config(filename) returned or raised
ParseMuxOutcome(r) ==
    IF r.ok
    THEN /\ services' = r.val
         /\ pc' = "resolve"
         /\ failure' = failure
    ELSE /\ services' = <<>>
         /\ pc' = "crashed"
         /\ failure' = Some(r.err)

\* parse_mux_config(filename)
ParseMux ==
    /\ pc = "parse"
    /\ ParseMuxOutcome(ParseMuxConfig(cfg))
    /\ UNCHANGED <<cfg, pass, lookups, warnings, slideshowServices, radioepg_fqdn_list,
                   epgIdx>>
    /\ UNCHANGED <<codecVars, parserVars>>

\* resolve_dns(services): one lookup_dab per service; an exception of the
\* resolver leaves None
ResolveDnsWith(answers) ==
    /\ pc = "resolve"
    /\ \E ans \in [1..Len(services) -> answers] :
          services' = [i \in 1..Len(services) |-> [services[i] EXCEPT !.dns = ans[i]]]
    /\ lookups' = lookups \o [i \in 1..Len(services) |-> LookupArgs(services[i].bearer)]
    /\ pc' = "aggregate"
    /\ UNCHANGED <<cfg, pass, warnings, slideshowServices, radioepg_fqdn_list, epgIdx,
                   failure>>
    /\ UNCHANGED <<codecVars, parserVars>>

\* the resolver cannot be reached: every lookup raises
ResolveDnsDown == ResolveDnsWith({None})

\* check_warnings(services)
CheckWarnings ==
    /\ pc = "aggregate" /\ pass = "warnings"
    /\ warnings' = CheckWarningsLog(services)
    /\ pass' = "slideshow"
    /\ pc' = "parse"
    /\ UNCHANGED <<cfg, services, lookups, slideshowServices, radioepg_fqdn_list,
                   epgIdx, failure>>
    /\ UNCHANGED <<codecVars, parserVars>>

-----------------------------------------------------------------------------
(* The builder scenario: a configuration file out of a family of files is    *)
(* built and resolved while the resolver cannot be reached.                  *)

MaxSubchannels == 2
MaxComponents == 2
MaxServices == 2

Sub(name, type, bitrate, inputuri) ==
    [name |-> name, type |-> type, bitrate |-> bitrate, inputuri |-> inputuri]

Comp(name, figtype, type, service, subchannel, address) ==
    [name |-> name, figtype |-> figtype, type |-> type, service |-> service,
     subchannel |-> subchannel, address |-> address]

Svc(name, id, ecc, label) == [name |-> name, id |-> id, ecc |-> ecc, label |-> label]

Hex0xE1   == <<"0","x","E","1">>
Hex0xE2   == <<"0","x","E","2">>
Hex0xCE15 == <<"0","x","C","E","1","5">>
Hex0x4FFF == <<"0","x","4","F","F","F">>
Hex0x4001 == <<"0","x","4","0","0","1">>
Hex0x4002 == <<"0","x","4","0","0","2">>
Hex0xC221 == <<"0","x","C","2","2","1">>
Hex0x10000 == <<"0","x","1","0","0","0","0">>
Hex0x5AC00221 == <<"0","x","5","A","C","0","0","2","2","1">>

\* the blocks a file of the family may declare i-th in each section
SubVariants(i) ==
    CASE i = 1 -> {Sub("sub1", Val("packet"), Val(<<"8">>), Val("epg.dat")),
                   Sub("sub1", Val("enhancedpacket"), Val(<<"1","6">>), Val("epg2.dat")),
                   Sub("sub1", Val("audio"), Val(<<"8">>), Val("a.dat")),
                   Sub("sub1", Val("packet"), Val(<<"8">>), KeyOnly)}
      [] i = 2 -> {Sub("sub2", Val("packet"), Val(<<"1","6">>), Val("epg2.dat")),
                   Sub("sub2", Val("dabplus"), Val(<<"1","6">>), Val("epg2.dat"))}
      [] OTHER -> {Sub("sub3", Val("packet"), Val(<<"8">>), Val("epg.dat"))}

CompVariants(i) ==
    CASE i = 1 -> {Comp("c1", Val(<<"0","x","0","2">>), Absent, Val("SRV1"), Absent, Absent),
                   Comp("c1", Val(<<"0","x","0","7">>), Val(<<"6","0">>), Val("SRV1"),
                        Val("sub1"), Val(<<"0","x","1">>)),
                   Comp("c1", Val(<<"0","x","0","7">>), Val(<<"6","0">>), Val("SRV1"),
                        Val("subX"), Val(<<"0","x","1">>)),
                   Comp("c1", Val(<<"0","x","0","7">>), Val(<<"5","9">>), Val("SRV1"),
                        Val("sub1"), Val(<<"0","x","1">>)),
                   Comp("c1", Absent, Absent, Val("SRV1"), Val("sub1"), Absent)}
      [] i = 2 -> {Comp("c2", Val(<<"0","x","0","7">>), Val(<<"6","0">>), Val("SRV2"),
                        Val("sub2"), Val(<<"0","x","2">>)),
                   Comp("c2", Val(<<"0","x","0","2">>), Absent, Val("SRV2"), Absent, Absent),
                   Comp("c2", Val(<<"0","x","0","7">>), Val(<<"6","0">>), Val("SRV1"),
                        Val("sub2"), Val(<<"0","x","2">>))}
      [] OTHER -> {Comp("c3", Val(<<"0","x","0","2">>), Absent, Val("SRV1"), Absent, Absent)}

SvcVariants(i) ==
    CASE i = 1 -> {Svc("SRV1", Val(id), ecc, Val("One")) :
                      id \in {Hex0x4001, Hex0xC221, Hex0x5AC00221},
                      ecc \in {Absent, Val(Hex0xE2)}}
      [] i = 2 -> {Svc("SRV2", Val(id), Absent, Val("Two")) : id \in {Hex0x10000, Hex0x4002}}
      [] OTHER -> {Svc("SRV3", Val(Hex0x4002), Absent, Val("Three"))}

\* the sequences of at most max blocks, the i-th out of variants(i)
SectionsUpTo(variants(_), min, max) ==
    UNION {{f \in [1..n -> UNION {variants(i) : i \in 1..n}] :
               \A i \in 1..n : f[i] \in variants(i)} : n \in min..max}

BuildEnsembles ==
    {[ecc |-> Val(Hex0xE1), id |-> Val(Hex0xCE15)],
     [ecc |-> Val(<<"e","0">>), id |-> Val(Hex0x4FFF)]}

BuildConfigs ==
    {[ensemble |-> e, subchannels |-> sc, components |-> co, services |-> sv] :
        e \in BuildEnsembles,
        sc \in SectionsUpTo(SubVariants, 0, MaxSubchannels),
        co \in SectionsUpTo(CompVariants, 0, MaxComponents),
        sv \in SectionsUpTo(SvcVariants, 1, MaxServices)}

BuildInit ==
    /\ CodecIdle
    /\ ParserIdle
    /\ cfg \in BuildConfigs
    /\ RunStart

BuildNext == ParseMux \/ ResolveDnsDown \/ CheckWarnings

SpecBuild == BuildInit /\ [][BuildNext]_vars

-----------------------------------------------------------------------------
(* The builder on files that leave out keys: one ensemble, one subchannel,   *)
(* at most one component and one service, each with or without its keys.     *)

IncompleteEnsembles ==
    {[ecc |-> ecc, id |-> id] :
        ecc \in {Absent, Val(Hex0xE1)}, id \in {Absent, Val(Hex0xCE15)}}

IncompleteSubchannels ==
    {Sub("sub1", type, bitrate, inputuri) :
        type \in {Absent, Val("packet"), Val("audio")},
        bitrate \in {Absent, Val(<<"8">>)},
        inputuri \in {Absent, Val("epg.dat")}}

IncompleteServices ==
    {Svc("SRV1", id, Absent, label) :
        id \in {Absent, Val(Hex0x4001)}, label \in {Absent, Val("One")}}

IncompleteConfigs ==
    {[ensemble |-> e, subchannels |-> <<sc>>, components |-> co, services |-> <<sv>>] :
        e \in IncompleteEnsembles,
        sc \in IncompleteSubchannels,
        co \in SectionsUpTo(CompVariants, 0, 1),
        sv \in IncompleteServices}

IncompleteInit ==
    /\ CodecIdle
    /\ ParserIdle
    /\ cfg \in IncompleteConfigs
    /\ RunStart

SpecIncomplete == IncompleteInit /\ [][BuildNext]_vars

-----------------------------------------------------------------------------
(* The whole run of main() over a family of files with two services, with a  *)
(* resolver that answers each lookup with any record of Answers, or fails.   *)

\* resolve_slideshow after resolve_dns returned: the loop and the callback
ResolveSlideshow ==
    /\ pc = "aggregate" /\ pass = "slideshow"
    /\ slideshowServices' = SlideshowLoop(services, 1, <<>>)
    /\ pass' = "epg"
    /\ pc' = "parse"
    /\ UNCHANGED <<cfg, services, lookups, warnings, radioepg_fqdn_list, epgIdx, failure>>
    /\ UNCHANGED <<codecVars, parserVars>>

\* the state after one round of the outer loop of resolve_epg
EpgRoundOutcome(r) ==
    IF r.ok
    THEN /\ radioepg_fqdn_list' = r.val
         /\ epgIdx' = epgIdx + 1
         /\ UNCHANGED <<pc, failure>>
    ELSE /\ pc' = "crashed"
         /\ failure' = Some(r.err)
         /\ UNCHANGED <<radioepg_fqdn_list, epgIdx>>

\* one round of the outer loop of resolve_epg
ResolveEpgStep ==
    /\ pc = "aggregate" /\ pass = "epg"
    /\ epgIdx <= Len(services)
    /\ EpgRoundOutcome(EpgRound(radioepg_fqdn_list, services, services[epgIdx]))
    /\ UNCHANGED <<cfg, pass, services, lookups, warnings, slideshowServices>>
    /\ UNCHANGED <<codecVars, parserVars>>

\* callback(radioepg_fqdn_list) and the return of resolve_epg and of main()
EpgCallback ==
    /\ pc = "aggregate" /\ pass = "epg"
    /\ epgIdx > Len(services)
    /\ pass' = "done"
    /\ pc' = "done"
    /\ UNCHANGED <<cfg, services, lookups, warnings, slideshowServices,
                   radioepg_fqdn_list, epgIdx, failure>>
    /\ UNCHANGED <<codecVars, parserVars>>

App(supported, servers) == [supported |-> supported, servers |-> servers]

\* the records the resolver may hand back
Answers ==
    {None,
     Some([authorative_fqdn |-> "x.example",
           applications |-> [a \in {"radiovis", "radioepg", "radiospi"} |->
               CASE a = "radiovis" -> App(TRUE, <<"vis.x:61613">>)
                 [] a = "radioepg" -> App(TRUE, <<"epg.x:80">>)
                 [] OTHER -> App(FALSE, <<>>)]]),
     Some([authorative_fqdn |-> "x.example",
           applications |-> [a \in {"radiovis", "radiovis-http", "radioepg", "radiospi"} |->
               CASE a = "radioepg" -> App(TRUE, <<"epg2.x:80">>)
                 [] a = "radiospi" -> App(TRUE, <<"spi.x:80">>)
                 [] OTHER -> App(FALSE, <<>>)]]),
     Some([authorative_fqdn |-> "x.example",
           applications |-> [a \in {"radioepg"} |-> App(TRUE, <<"epg.x:80">>)]]),
     Some([authorative_fqdn |-> "y.example",
           applications |-> [a \in {"radiovis-http", "radioepg", "radiospi"} |->
               CASE a = "radiovis-http" -> App(TRUE, <<"vis.y:80">>)
                 [] a = "radiospi" -> App(TRUE, <<"spi.y:80">>)
                 [] OTHER -> App(FALSE, <<>>)]]),
     Some([authorative_fqdn |-> "x.example",
           applications |-> [a \in {} |-> App(FALSE, <<>>)]])}

\* resolve_dns(services) against that resolver
ResolveDns == ResolveDnsWith(Answers)

PipelineConfigs ==
    {[ensemble |-> [ecc |-> Val(Hex0xE1), id |-> Val(Hex0xCE15)],
      subchannels |-> <<Sub("sub1", Val("packet"), Val(<<"8">>), Val("epg.dat")),
                        Sub("sub2", Val("packet"), Val(<<"1","6">>), Val("epg2.dat"))>>,
      components |-> co,
      services |-> <<Svc("SRV1", Val(Hex0x4001), Absent, Val("One")),
                     Svc("SRV2", Val(Hex0x4002), Absent, Val("Two"))>>] :
        co \in SectionsUpTo(CompVariants, 1, MaxComponents)}
    \cup
    {[ensemble |-> [ecc |-> Val(Hex0xE1), id |-> Val(Hex0xCE15)],
      subchannels |-> <<Sub("sub1", Val("packet"), Val(<<"8">>), Val("epg.dat"))>>,
      components |-> <<Comp("c1", Val(<<"0","x","0","2">>), Absent, Val("SRV1"),
                            Absent, Absent)>>,
      services |-> <<Svc("SRV1", Val(Hex0x4001), Absent, Val("One")),
                     Svc("SRV2", Val(Hex0x4002), Absent, Val("Two")),
                     Svc("SRV3", Val(Hex0xC221), Absent, Val("Three"))>>]}

Init ==
    /\ CodecIdle
    /\ ParserIdle
    /\ cfg \in PipelineConfigs
    /\ RunStart

Next ==
    \/ ParseMux
    \/ ResolveDns
    \/ CheckWarnings
    \/ ResolveSlideshow
    \/ ResolveEpgStep
    \/ EpgCallback

Spec == Init /\ [][Next]_vars

-----------------------------------------------------------------------------
(* The parser scenario: read() is given a stream of at most MaxLines lines   *)
(* out of Lines.                                                             *)

MaxLines == 4

LineA == <<"a">>
LineA1 == <<"a"," ","1">>
LineA2Comment == <<" "," ","a"," ","2"," ",";","c","\n">>
LineBQuoted == <<"b"," ","\"","x"," ","y","\"">>
LineB == <<"b">>
LineUnclosedQuote == <<"b"," ","\"","x">>
LineComment == <<";"," ","c">>
LineBlank == <<"\n">>
LineOpen == <<"{">>
LineClose == <<"}">>

\* the lines that hold a key and perhaps a value
KeyLines == {LineA, LineA1, LineA2Comment, LineBQuoted, LineB}

Lines ==
    {LineA, LineA1, LineA2Comment, LineBQuoted, LineUnclosedQuote, LineComment,
     LineBlank, LineOpen, LineClose,
     LineA \o <<" ","{">>, LineA1 \o <<" ","{">>, LineB \o <<"{">>}

\* the parser as _parseLine sees it between two lines
ParserState ==
    [ok |-> ppc # "raised", nodes |-> nodes, ctx |-> ctx,
     err |-> IF IsNone(perr) THEN "" ELSE The(perr)]

ParserInit ==
    /\ CodecIdle
    /\ RunIdle
    /\ nodes = ParserReset
    /\ ctx = RootRef
    /\ fileLines = <<>>
    /\ ppc = "reading"
    /\ perr = None

\* the state after _parseLine returned or raised
ReadOutcome(st) ==
    /\ nodes' = st.nodes
    /\ ctx' = st.ctx
    /\ ppc' = IF st.ok THEN "reading" ELSE "raised"
    /\ perr' = IF st.ok THEN None ELSE Some(st.err)

\* one round of the loop of read(): ctx = self._parseLine(line.strip(), ctx)
ReadLine ==
    /\ ppc = "reading"
    /\ Len(fileLines) < MaxLines
    /\ \E line \in Lines :
          /\ ReadOutcome(ParseLine(Strip(line), Parsing(nodes, ctx)))
          /\ fileLines' = Append(fileLines, line)
    /\ UNCHANGED <<codecVars, runVars>>

\* the stream is at its end: read() returns
EndOfStream ==
    /\ ppc = "reading"
    /\ ppc' = "returned"
    /\ UNCHANGED <<nodes, ctx, fileLines, perr>>
    /\ UNCHANGED <<codecVars, runVars>>

ParserNext == ReadLine \/ EndOfStream

SpecParser == ParserInit /\ [][ParserNext]_vars

-----------------------------------------------------------------------------
(* The codec scenario: a bearer is built, written with __str__, and the      *)
(* string (as written, or changed in one place) is read back with fromstring *)
(* of the same class.                                                        *)

\* TLC's integers are 32 bit, so the sample long SIds stay below 2^31
SampleEcc == {225, 10}                         \* 0xE1, 0x0A
SampleEid == {52757, 1}                        \* 0xCE15, 0x0001
SampleSid == {49697, 1, 65536, 1522532897}     \* 0xC221, 0x0001, 0x10000, 0x5AC00221
SampleScids == {0, 15}
SampleXpad == {None, Some(1), Some(65535)}
SamplePi == {50297, 121}                       \* 0xC479, 0x0079
SampleFrequency == {95800, 1079000, 10}
SampleIpUri == {<<"h","t","t","p",":","/","/","a","/","s">>}

\* the bearers parse_mux_config builds from the files of the builder scenario
BuiltBearers ==
    UNION {{ParseMuxConfig(c).val[i].bearer : i \in 1..Len(ParseMuxConfig(c).val)} :
              c \in {b \in BuildConfigs : ParseMuxConfig(b).ok}}

CodecBearers ==
    BuiltBearers \cup
    {DabBearer(ecc, eid, sid, scids, xpad) :
        ecc \in SampleEcc, eid \in SampleEid, sid \in SampleSid,
        scids \in SampleScids, xpad \in SampleXpad}
    \cup {FmBearer(ecc, pi, f) : ecc \in SampleEcc, pi \in SamplePi, f \in SampleFrequency}
    \cup {IpBearer(u) : u \in SampleIpUri}

TamperChars == {" ", ".", "(", "z", "+", "0", "\n"}

ReplaceAt(s, i, c) == [s EXCEPT ![i] = c]
InsertAt(s, i, c) == SubSeq(s, 1, i - 1) \o <<c>> \o SubSeq(s, i, Len(s))

CodecInit ==
    /\ RunIdle
    /\ ParserIdle
    /\ bearer \in CodecBearers
    /\ uri = <<>>
    /\ decoded = None
    /\ tampered = FALSE
    /\ cpc = "new"

\* str(bearer)
Encode ==
    /\ cpc = "new"
    /\ uri' = BearerStr(bearer)
    /\ cpc' = "encoded"
    /\ UNCHANGED <<bearer, decoded, tampered>>
    /\ UNCHANGED <<runVars, parserVars>>

\* the caller hands fromstring a string that differs from str(bearer) in one place
Tamper ==
    /\ cpc = "encoded"
    /\ ~tampered
    /\ bearer.kind # "ip"
    /\ \E c \in TamperChars :
         \/ \E i \in 1..Len(uri) : uri' = ReplaceAt(uri, i, c)
         \/ \E i \in 1..(Len(uri) + 1) : uri' = InsertAt(uri, i, c)
    /\ tampered' = TRUE
    /\ UNCHANGED <<bearer, decoded, cpc>>
    /\ UNCHANGED <<runVars, parserVars>>

\* <class of bearer>.fromstring(uri)
Decode ==
    /\ cpc = "encoded"
    /\ decoded' = BearerFromString(bearer.kind, uri)
    /\ cpc' = "decoded"
    /\ UNCHANGED <<bearer, uri, tampered>>
    /\ UNCHANGED <<runVars, parserVars>>

CodecNext == Encode \/ Tamper \/ Decode

SpecCodec == CodecInit /\ [][CodecNext]_vars

-----------------------------------------------------------------------------
(* Claims about the bearer codec, checked under SpecCodec *)

IsHexText(t) == \A i \in 1..Len(t) : IsDigitOf(t[i], 16)
IsDecText(t) == \A i \in 1..Len(t) : IsDigitOf(t[i], 10)

RECURSIVE Pow16(_)
Pow16(n) == IF n = 0 THEN 1 ELSE 16 * Pow16(n - 1)

\* n written as exactly w lower-case hex digits (n taken modulo 16^w)
ExactHex(n, w) == [i \in 1..w |-> HexChars[((n \div Pow16(w - i)) % 16) + 1]]

\* the number of hex digits of n
RECURSIVE HexWidth(_)
HexWidth(n) == IF n < 16 THEN 1 ELSE 1 + HexWidth(n \div 16)

\* a bearer the data model allows: ecc a byte, eid and pi 16 bit, sid 16 or 32
\* bit, scids one hex digit, the data-application type 16 bit, a frequency
\* that is a multiple of 10 and has five digits once divided by 10
ValidBearer(b) ==
    CASE b.kind = "dab" ->
            /\ b.ecc \in 0..255 /\ b.eid \in 0..65535 /\ b.sid >= 0
            /\ b.scids \in 0..15
            /\ (IsNone(b.xpad) \/ The(b.xpad) \in 0..65535)
      [] b.kind = "fm" ->
            /\ b.ecc \in 0..255 /\ b.pi \in 0..65535
            /\ b.frequency % 10 = 0 /\ b.frequency \div 10 \in 0..99999
      [] b.kind = "ip" -> TRUE

\* C1: for every valid bearer of each kind, decoding the string produced by
\* encoding it succeeds and yields a bearer equal to it.
C1_RoundTrip ==
    (cpc = "decoded" /\ ~tampered /\ ValidBearer(bearer))
        => (decoded.ok /\ BearerEq(decoded.bearer, bearer))

\* the layout the specification gives for a DAB bearer string
WellFormedDab(s) ==
    /\ Len(s) \in {19, 24}
    /\ SubSeq(s, 1, 4) = <<"d","a","b",":">>
    /\ IsHexText(SubSeq(s, 5, 7))   /\ s[8] = "."
    /\ IsHexText(SubSeq(s, 9, 12))  /\ s[13] = "."
    /\ IsHexText(SubSeq(s, 14, 17)) /\ s[18] = "."
    /\ IsHexText(SubSeq(s, 19, 19))
    /\ (Len(s) = 24 => (s[20] = "." /\ IsHexText(SubSeq(s, 21, 24))))

\* the layout the specification gives for an FM bearer string
WellFormedFm(s) ==
    /\ Len(s) = 17
    /\ SubSeq(s, 1, 3) = <<"f","m",":">>
    /\ IsHexText(SubSeq(s, 4, 6))   /\ s[7] = "."
    /\ IsHexText(SubSeq(s, 8, 11))  /\ s[12] = "."
    /\ IsDecText(SubSeq(s, 13, 17))

WellFormed(kind, s) ==
    CASE kind = "dab" -> WellFormedDab(s)
      [] kind = "fm"  -> WellFormedFm(s)
      [] OTHER        -> TRUE

\* C2: decode accepts a string only if it starts with the scheme prefix and
\* every field has exactly its fixed width, with nothing before or after;
\* every other string is rejected.
C2_DecodeAcceptsOnlyWellFormed ==
    (cpc = "decoded" /\ decoded.ok) => WellFormed(bearer.kind, uri)

\* dab:<gcc>.<eid>.<sid>.<scids> with the sid written in sidWidth digits
DabLayout(b, sidWidth) ==
    <<"d","a","b",":">>
    \o ExactHex((((b.eid \div 16) \div 256) % 16) * 256 + b.ecc, 3) \o <<".">>
    \o ExactHex(b.eid, 4) \o <<".">>
    \o ExactHex(b.sid, sidWidth) \o <<".">>
    \o ExactHex(b.scids, 1)

ScenarioDBearer == DabBearer(225, 52757, 49697, 0, None)
ScenarioDString ==
    <<"d","a","b",":","c","e","1",".","c","e","1","5",".","c","2","2","1",".","0">>

-----------------------------------------------------------------------------
(* Claims about the builder, checked under SpecBuild *)

\* the number each text of the configuration family writes
Written(t) ==
    CASE t = Hex0xE1 -> 225
      [] t = Hex0xE2 -> 226
      [] t = <<"e","0">> -> 224
      [] t = Hex0xCE15 -> 52757
      [] t = Hex0x4FFF -> 20479
      [] t = Hex0x4001 -> 16385
      [] t = Hex0x4002 -> 16386
      [] t = Hex0xC221 -> 49697
      [] t = Hex0x10000 -> 65536
      [] t = Hex0x5AC00221 -> 1522532897
      [] t = <<"0","x","0","1">> -> 1
      [] t = <<"0","x","0","2">> -> 2
      [] t = <<"0","x","0","7">> -> 7
      [] t = <<"6","0">> -> 60
      [] t = <<"5","9">> -> 59
      [] t = <<"0","x","1">> -> 1
      [] t = <<"0","x","2">> -> 2
      [] t = <<"8">> -> 8
      [] t = <<"1","6">> -> 16

\* the number a field with a value writes
FieldNumber(f) == Written(The(GetValue(f)))

\* C4: when the service id exceeds 65535 the ecc and the country nibble come
\* from the id itself, whatever the per-service ecc says; when it is at most
\* 65535 the per-service ecc is used if present and the ensemble ecc otherwise.
C4_CountryCode ==
    pc = "aggregate" =>
        \A i \in 1..Len(services) :
            LET conf == cfg.services[i]
                sid  == FieldNumber(conf.id)
                b    == services[i].bearer
                gcc  == ParseInt(lookups[i][1], 16).val
            IN  IF sid > 65535
                THEN /\ b.ecc = sid \div 16777216
                     /\ gcc = ((sid \div 1048576) % 16) * 256 + (sid \div 16777216)
                ELSE LET e == IF IsAbsent(conf.ecc) THEN FieldNumber(cfg.ensemble.ecc)
                              ELSE FieldNumber(conf.ecc)
                     IN  /\ b.ecc = e
                         /\ gcc = ((sid \div 4096) % 16) * 256 + e

C4_Witness ==
    /\ pc = "aggregate"
    /\ \E i \in 1..Len(services) :
          /\ FieldNumber(cfg.services[i].id) > 65535
          /\ ~IsAbsent(cfg.services[i].ecc)
    /\ \E i \in 1..Len(services) :
          /\ FieldNumber(cfg.services[i].id) <= 65535
          /\ IsAbsent(cfg.services[i].ecc)

\* the figtype 7 / type 60 components of the file that name the service
EpgComponentsOf(name) ==
    {k \in 1..Len(cfg.components) :
        /\ ~IsAbsent(cfg.components[k].figtype)
        /\ FieldNumber(cfg.components[k].figtype) = 7
        /\ ~IsAbsent(cfg.components[k].type)
        /\ FieldNumber(cfg.components[k].type) = 60
        /\ cfg.components[k].service = Val(name)}

\* ... paired with the packet/enhancedpacket subchannel they reference
EpgPairsOf(name) ==
    {p \in EpgComponentsOf(name) \X (1..Len(cfg.subchannels)) :
        /\ cfg.subchannels[p[2]].type \in {Val("packet"), Val("enhancedpacket")}
        /\ cfg.components[p[1]].subchannel = Val(cfg.subchannels[p[2]].name)}

EpgAllSet(sv) ==
    ~IsNone(sv.EPGpacketSize) /\ ~IsNone(sv.EPGinputURI) /\ ~IsNone(sv.EPGpacketAddress)
EpgAllUnset(sv) ==
    IsNone(sv.EPGpacketSize) /\ IsNone(sv.EPGinputURI) /\ IsNone(sv.EPGpacketAddress)

\* C9: for every built service the three EPG fields are all set or all unset;
\* they are set exactly when a figtype-7/type-60 component naming the service
\* references a kept subchannel, and then hold 3 x its bitrate, its inputuri
\* and the component's address; without such a subchannel they stay unset
\* while hasEPG is true.
C9_EpgFields ==
    pc = "resolve" =>
        \A i \in 1..Len(services) :
            LET sv == services[i]
                pairs == EpgPairsOf(sv.service)
            IN  /\ EpgAllSet(sv) \/ EpgAllUnset(sv)
                /\ EpgAllSet(sv) <=> pairs # {}
                /\ pairs # {} =>
                     \E p \in pairs :
                        /\ sv.EPGpacketSize = Some(3 * FieldNumber(cfg.subchannels[p[2]].bitrate))
                        /\ sv.EPGinputURI = GetValue(cfg.subchannels[p[2]].inputuri)
                        /\ sv.EPGpacketAddress = Some(FieldNumber(cfg.components[p[1]].address))
                /\ (EpgComponentsOf(sv.service) # {} /\ pairs = {}) =>
                     (EpgAllUnset(sv) /\ sv.hasEPG)

\* the distinct EPG input URIs of the services with hasEPG
EpgInputUris ==
    {The(services[i].EPGinputURI) :
        i \in {k \in 1..Len(services) :
                  services[k].hasEPG /\ ~IsNone(services[k].EPGinputURI)}}

MultipleEpgLogged ==
    {n \in 1..Len(warnings) : warnings[n].kind = "MultipleEpgInputSources"}

\* C12: check_warnings logs MultipleEpgInputSources exactly when the services
\* with hasEPG have more than one distinct EPG input URI, at most once, and
\* the warning carries exactly those URIs.
C12_MultipleEpgInputSources ==
    (pass = "slideshow" /\ pc = "parse") =>
        /\ Cardinality(MultipleEpgLogged) <= 1
        /\ MultipleEpgLogged # {} <=> Cardinality(EpgInputUris) > 1
        /\ \A n \in MultipleEpgLogged :
              warnings[n].uris = {Some(u) : u \in EpgInputUris}

\* C17 as stated: a built service has hasEPG exactly when exactly one
\* figtype-7/type-60 component names it and that component's subchannel is a
\* packet or enhancedpacket subchannel.
C17_ExactlyOnePacket ==
    pc = "resolve" =>
        \A i \in 1..Len(services) :
            services[i].hasEPG <=>
                /\ Cardinality(EpgComponentsOf(services[i].service)) = 1
                /\ EpgPairsOf(services[i].service) # {}

\* C17 amended: a built service has hasEPG exactly when at least one
\* figtype-7/type-60 component names it, whether or not the subchannel of
\* that component is a packet or enhancedpacket subchannel of the file.
C17_Amended ==
    pc = "resolve" =>
        \A i \in 1..Len(services) :
            services[i].hasEPG <=> EpgComponentsOf(services[i].service) # {}

C17_Witness ==
    /\ pc = "resolve"
    /\ \E i \in 1..Len(services) :
          /\ services[i].hasEPG
          /\ Cardinality(EpgComponentsOf(services[i].service)) = 2
          /\ EpgPairsOf(services[i].service) = {}
    /\ \E i \in 1..Len(services) : ~services[i].hasEPG

\* the file leaves out a key the builder's contract requires
MissingRequired(c) ==
    \/ IsAbsent(c.ensemble.ecc) \/ IsAbsent(c.ensemble.id)
    \/ \E n \in 1..Len(c.subchannels) :
          \/ IsAbsent(c.subchannels[n].type)
          \/ IsAbsent(c.subchannels[n].bitrate)
          \/ IsAbsent(c.subchannels[n].inputuri)
    \/ \E n \in 1..Len(c.services) :
          IsAbsent(c.services[n].id) \/ IsAbsent(c.services[n].label)

\* C14: when a required key is absent (ensemble ecc or id; type, bitrate or
\* inputuri of any subchannel; id or label of any service), parse_mux_config
\* ends with an exception and hands over no service list.
C14_MissingRequiredField ==
    (pass = "warnings" /\ pc # "parse" /\ MissingRequired(cfg)) =>
        (pc = "crashed" /\ services = <<>> /\ ~IsNone(failure))

\* the number the gcc field of the service's encoded bearer string writes
EncodedGcc(b) == ParseInt(SubSeq(DabBearerStr(b), 5, 7), 16).val

\* C21: the four arguments of each lookup are the identity of the service's
\* bearer: the country code is the gcc written in str(bearer), and the other
\* three are the bearer's eid, sid and scids.
C21_LookupIdentity ==
    pc = "aggregate" =>
        \A i \in 1..Len(services) :
            LET b == services[i].bearer IN
            /\ ParseInt(lookups[i][1], 16).val = EncodedGcc(b)
            /\ ParseInt(lookups[i][2], 16).val = b.eid
            /\ ParseInt(lookups[i][3], 16).val = b.sid
            /\ ParseInt(lookups[i][4], 16).val = b.scids

\* the input URIs the packet and enhancedpacket subchannels of the file give
PacketInputUris ==
    {GetValue(cfg.subchannels[j].inputuri) :
        j \in {k \in 1..Len(cfg.subchannels) :
                  /\ cfg.subchannels[k].type \in {Val("packet"), Val("enhancedpacket")}
                  /\ ~IsAbsent(cfg.subchannels[k].inputuri)}}

\* the input URIs of the services with hasEPG whose EPG fields are populated
PopulatedEpgUris ==
    {services[i].EPGinputURI :
        i \in {k \in 1..Len(services) : services[k].hasEPG /\ EpgAllSet(services[k])}}

\* C24: the URI set of a logged MultipleEpgInputSources holds no unset value
\* and only input URIs of packet/enhancedpacket subchannels, and the warning
\* is not logged when the hasEPG services with populated EPG fields share
\* one input URI, whatever the other hasEPG services are.
C24_EpgUriSet ==
    (pass = "slideshow" /\ pc = "parse") =>
        /\ \A n \in MultipleEpgLogged :
              \A u \in warnings[n].uris : ~IsNone(u) /\ u \in PacketInputUris
        /\ Cardinality(PopulatedEpgUris) <= 1 => MultipleEpgLogged = {}

-----------------------------------------------------------------------------
(* Claims about resolution and aggregation, checked under Spec *)

\* the guide application a record selects: the preferred supported one
WinningApp(dns) ==
    IF IsNone(dns) THEN ""
    ELSE IF "radiospi" \in DOMAIN The(dns).applications
            /\ The(dns).applications["radiospi"].supported THEN "radiospi"
    ELSE IF "radioepg" \in DOMAIN The(dns).applications
            /\ The(dns).applications["radioepg"].supported THEN "radioepg"
    ELSE ""

\* the services that share fqdn f and whose winning guide application is a
EpgGroup(f, a) ==
    {i \in 1..Len(services) :
        /\ ~IsNone(services[i].dns)
        /\ The(services[i].dns).authorative_fqdn = f
        /\ WinningApp(services[i].dns) = a}

\* C8: when resolve_epg has handed over its list, all services that share one
\* fqdn and have the same winning guide application are folded into exactly
\* one entry, whose bearers include the bearer of every one of them.
C8_EpgDedup ==
    (pass = "done") =>
        \A f \in {"x.example", "y.example"}, a \in {"radioepg", "radiospi"} :
            EpgGroup(f, a) # {} =>
                /\ Cardinality({k \in 1..Len(radioepg_fqdn_list) :
                                   /\ radioepg_fqdn_list[k].fqdn = f
                                   /\ radioepg_fqdn_list[k].app = a}) = 1
                /\ \A k \in 1..Len(radioepg_fqdn_list) :
                      (radioepg_fqdn_list[k].fqdn = f /\ radioepg_fqdn_list[k].app = a) =>
                          \A i \in EpgGroup(f, a) :
                              \E n \in 1..Len(radioepg_fqdn_list[k].bearers) :
                                  radioepg_fqdn_list[k].bearers[n] = services[i].bearer

\* a record that advertises a supported visual application
HasVisual(dns) == SupportedOr(dns, "radiovis", FALSE) \/ SupportedOr(dns, "radiovis-http", FALSE)

OrphanSlideshowLogged(name) ==
    \E n \in 1..Len(warnings) :
        warnings[n] = [kind |-> "OrphanSlideshowComponent", service |-> name]

\* C10: check_warnings logs OrphanSlideshowComponent for every service with
\* hasSlideshow and no supported visual application, and for no service that
\* has a supported visual application; resolve_slideshow hands over no entry
\* for a service with hasSlideshow and no supported visual application.
C10_OrphanSlideshow ==
    /\ (pass = "slideshow" /\ pc = "parse") =>
          \A i \in 1..Len(services) :
              /\ (services[i].hasSlideshow /\ ~HasVisual(services[i].dns))
                     => OrphanSlideshowLogged(services[i].service)
              /\ HasVisual(services[i].dns) => ~OrphanSlideshowLogged(services[i].service)
    /\ (pass = "epg" /\ pc = "parse") =>
          \A i \in 1..Len(services) :
              (services[i].hasSlideshow /\ ~HasVisual(services[i].dns)) =>
                  \A n \in 1..Len(slideshowServices) :
                      slideshowServices[n].bearer # services[i].bearer

OrphanVisualLogged(name) ==
    \E n \in 1..Len(warnings) :
        warnings[n] = [kind |-> "OrphanVisualService", service |-> name]

\* C11: check_warnings logs OrphanVisualService for every service with
\* hasSlideshow false whose record marks radiovis or radiovis-http as
\* supported.
C11_OrphanVisual ==
    (pass = "slideshow" /\ pc = "parse") =>
        \A i \in 1..Len(services) :
            (~services[i].hasSlideshow /\ HasVisual(services[i].dns))
                => OrphanVisualLogged(services[i].service)

\* the bearer of service i is in the slideshow list / in an EPG entry
InSlideshowList(i) ==
    \E n \in 1..Len(slideshowServices) : slideshowServices[n].bearer = services[i].bearer

InEpgEntry(i) ==
    \E k \in 1..Len(radioepg_fqdn_list) :
        \E n \in 1..Len(radioepg_fqdn_list[k].bearers) :
            radioepg_fqdn_list[k].bearers[n] = services[i].bearer

\* C13: a service whose lookup failed or gave nothing has no record, is in
\* neither the slideshow list nor the bearers of an EPG entry, and the pass
\* it belongs to is not ended by an exception.
C13_ResolverFailure ==
    /\ (pass = "epg" /\ pc = "parse") =>
          \A i \in 1..Len(services) : IsNone(services[i].dns) => ~InSlideshowList(i)
    /\ (pass \in {"epg", "done"} /\ pc \in {"aggregate", "done", "crashed"}) =>
          \A i \in 1..Len(services) : IsNone(services[i].dns) => ~InEpgEntry(i)
    /\ (pc = "crashed" /\ pass = "epg") =>
          \A i \in 1..Len(services) : ~IsNone(services[i].dns)

\* the services, by position, that are to have a slideshow entry
SlideshowExpected ==
    LET Wanted(i) == services[i].hasSlideshow /\ HasVisual(services[i].dns)
    IN  SelectSeq([i \in 1..Len(services) |-> i], Wanted)

\* C15: the list resolve_slideshow hands over holds one entry for each service
\* with hasSlideshow and a supported visual application, none for any other
\* service, in the order of the services.
C15_SlideshowList ==
    (pass = "epg" /\ pc = "parse") =>
        /\ Len(slideshowServices) = Len(SlideshowExpected)
        /\ \A n \in 1..Len(SlideshowExpected) :
              /\ slideshowServices[n].bearer = services[SlideshowExpected[n]].bearer
              /\ slideshowServices[n].fqdn =
                     The(services[SlideshowExpected[n]].dns).authorative_fqdn

C15_Witness ==
    /\ pass = "epg" /\ pc = "parse"
    /\ Len(services) = 2
    /\ Len(slideshowServices) = 2
    /\ slideshowServices[1].fqdn # slideshowServices[2].fqdn

\* the record of service i has an fqdn and a supported guide application
EpgQualifies(i) ==
    /\ ~IsNone(services[i].dns)
    /\ The(services[i].dns).authorative_fqdn # ""
    /\ WinningApp(services[i].dns) # ""

\* service i is the first qualifying service of its fqdn
EpgFirstOfFqdn(i) ==
    /\ EpgQualifies(i)
    /\ \A j \in 1..(i - 1) :
          EpgQualifies(j) =>
              The(services[j].dns).authorative_fqdn # The(services[i].dns).authorative_fqdn

\* C16: when resolve_epg has handed over its list, only services whose record
\* has an fqdn and a supported guide application are among the bearers, each
\* such service has an entry for its fqdn, and the application of the entry
\* is the preferred application that the record of the service that created
\* it marks as supported, that service being among the entry's bearers.
C16_EpgSelection ==
    (pass = "done") =>
        \A i \in 1..Len(services) :
            /\ InEpgEntry(i) => EpgQualifies(i)
            /\ EpgQualifies(i) =>
                  \E k \in 1..Len(radioepg_fqdn_list) :
                      radioepg_fqdn_list[k].fqdn = The(services[i].dns).authorative_fqdn
            /\ EpgFirstOfFqdn(i) =>
                  /\ InEpgEntry(i)
                  /\ \A k \in 1..Len(radioepg_fqdn_list) :
                        radioepg_fqdn_list[k].fqdn = The(services[i].dns).authorative_fqdn
                            => radioepg_fqdn_list[k].app = WinningApp(services[i].dns)

\* the services, by position, whose bearer is among the bearers of an entry
EpgContributors(entry) ==
    {i \in 1..Len(services) :
        \E n \in 1..Len(entry.bearers) : entry.bearers[n] = services[i].bearer}

\* C19: at every point of resolve_epg's loop, the servers of each entry with
\* bearers are the servers that the record of the last contributing service,
\* in the order of the services, gives for the entry's application.
C19_LastServersWin ==
    (pass \in {"epg", "done"} /\ pc \in {"aggregate", "done"}) =>
        \A k \in 1..Len(radioepg_fqdn_list) :
            LET entry == radioepg_fqdn_list[k]
                who == EpgContributors(entry)
            IN  who # {} =>
                    \E last \in who :
                        /\ \A i \in who : i <= last
                        /\ entry.servers =
                               The(services[last].dns).applications[entry.app].servers

C19_Witness ==
    /\ pass = "done"
    /\ Len(radioepg_fqdn_list) = 1
    /\ Len(radioepg_fqdn_list[1].bearers) = 2
    /\ radioepg_fqdn_list[1].app = "radioepg"
    /\ radioepg_fqdn_list[1].servers = <<"epg2.x:80">>
    /\ The(services[1].dns).applications["radioepg"].servers = <<"epg.x:80">>

\* the fqdns of the first n services that are the first qualifying service
\* of their fqdn, in the order of the services
EpgExpectedFqdns(n) ==
    LET First(i) == i <= n /\ EpgFirstOfFqdn(i)
        firsts == SelectSeq([i \in 1..Len(services) |-> i], First)
    IN  [m \in 1..Len(firsts) |-> The(services[firsts[m]].dns).authorative_fqdn]

EpgListFqdns == [k \in 1..Len(radioepg_fqdn_list) |-> radioepg_fqdn_list[k].fqdn]

\* C20: every step leaves the entries already in resolve_epg's list where and
\* as they are, and after any number of rounds of its loop the entries have
\* pairwise different fqdns and stand in the order of the first service of
\* each fqdn that has that fqdn and a supported guide application.
C20_EpgListOrder ==
    [][/\ Len(radioepg_fqdn_list') >= Len(radioepg_fqdn_list)
       /\ SubSeq(radioepg_fqdn_list', 1, Len(radioepg_fqdn_list)) = radioepg_fqdn_list
       /\ (pass' \in {"epg", "done"} /\ pc' \in {"aggregate", "done"}) =>
             /\ EpgListFqdns' = EpgExpectedFqdns(epgIdx - 1)'
             /\ \A k, m \in 1..Len(radioepg_fqdn_list') :
                   k # m => radioepg_fqdn_list'[k].fqdn # radioepg_fqdn_list'[m].fqdn]_vars

C20_Witness ==
    /\ pass = "done"
    /\ Len(services) = 3
    /\ Len(radioepg_fqdn_list) = 2
    /\ radioepg_fqdn_list[1].fqdn = "y.example"
    /\ radioepg_fqdn_list[2].fqdn = "x.example"
    /\ EpgQualifies(3)
    /\ The(services[3].dns).authorative_fqdn = "y.example"

\* the services whose processing created the entry: the first service, in
\* the order of the services, that qualifies with the entry's fqdn
EpgCreators(entry) ==
    {i \in 1..Len(services) :
        EpgFirstOfFqdn(i) /\ The(services[i].dns).authorative_fqdn = entry.fqdn}

\* the record of service i has the entry's fqdn and marks its application as
\* supported
EpgSupports(i, entry) ==
    /\ ~IsNone(services[i].dns)
    /\ The(services[i].dns).authorative_fqdn = entry.fqdn
    /\ entry.app \in DOMAIN The(services[i].dns).applications
    /\ The(services[i].dns).applications[entry.app].supported

\* C22: every entry of resolve_epg's list has bearers, among them the bearer
\* of the service that created the entry, and every bearer of the entry is
\* the bearer of a service whose record has the entry's fqdn and marks the
\* entry's application as supported.
C22_EntryBearers ==
    (pass \in {"epg", "done"} /\ pc \in {"aggregate", "done"}) =>
        \A k \in 1..Len(radioepg_fqdn_list) :
            LET entry == radioepg_fqdn_list[k] IN
            /\ entry.bearers # <<>>
            /\ \A i \in EpgCreators(entry) : i \in EpgContributors(entry)
            /\ \A i \in EpgContributors(entry) : EpgSupports(i, entry)

\* the entry of the slideshow list says of service i what the record that
\* service i ends the run with says
SlideshowEntryAgrees(n, i) ==
    /\ ~IsNone(services[i].dns)
    /\ slideshowServices[n].fqdn = The(services[i].dns).authorative_fqdn
    /\ slideshowServices[n].radiovis = SupportedOr(services[i].dns, "radiovis", FALSE)
    /\ slideshowServices[n].radiovis_http
           = SupportedOr(services[i].dns, "radiovis-http", FALSE)

\* C23: within one run lookup_dab is called once per service, no service of
\* the slideshow list has an OrphanSlideshowComponent warning, and the
\* slideshow list, built from the answer the warnings were built from, agrees
\* with the records resolve_epg works on.
C23_OneAnswerPerService ==
    /\ Len(lookups) <= Len(services)
    /\ (pass = "done") =>
          \A i \in 1..Len(services) :
              \A n \in 1..Len(slideshowServices) :
                  slideshowServices[n].bearer = services[i].bearer =>
                      /\ ~OrphanSlideshowLogged(services[i].service)
                      /\ SlideshowEntryAgrees(n, i)

\* C25: resolve_epg raises nothing, whatever records or failures the
\* lookups gave: a service whose record does not list the application chosen
\* for another service is passed over.
C25_EpgCompletes ==
    (pass = "epg") => (pc # "crashed" /\ IsNone(failure))

-----------------------------------------------------------------------------
(* Claims about the parser, checked under SpecParser *)

\* C5: whenever read() takes a line that holds a key (with or without a
\* value) followed by "{", the trees and the context afterwards are those that
\* parsing the key line and then the line "{" gives.
C5_SameLineBrace ==
    [][\A kl \in KeyLines \ {LineA2Comment}, sep \in {<<>>, <<" ">>} :
          (ppc = "reading" /\ fileLines' = Append(fileLines, kl \o sep \o LineOpen)) =>
              ParserState' = ParseLine(Strip(LineOpen), ParseLine(Strip(kl), ParserState))]_vars

C5_Witness ==
    /\ ppc = "reading"
    /\ Len(fileLines) = 2
    /\ fileLines[1] = LineA1 \o <<" ","{">>
    /\ fileLines[2] = LineB \o <<"{">>
    /\ ctx = 3
    /\ nodes[3].parent = 2
    /\ nodes[2].parent = RootRef

\* what a key line declares
Declared(line) ==
    CASE line = LineA -> [key |-> <<"a">>, value |-> None]
      [] line = LineA1 -> [key |-> <<"a">>, value |-> Some(<<"1">>)]
      [] line = LineA2Comment -> [key |-> <<"a">>, value |-> Some(<<"2">>)]
      [] line = LineBQuoted -> [key |-> <<"b">>, value |-> Some(<<"x"," ","y">>)]
      [] line = LineB -> [key |-> <<"b">>, value |-> None]

\* the values declared for key by the key lines of a stream, in order
RECURSIVE DeclaredValues(_, _)
DeclaredValues(lines, key) ==
    IF lines = <<>> THEN <<>>
    ELSE (IF Head(lines) \in KeyLines /\ Declared(Head(lines)).key = key
          THEN <<Declared(Head(lines)).value>> ELSE <<>>)
         \o DeclaredValues(Tail(lines), key)

\* the stream so far is key lines, comments and blank lines only
OnlyKeyLines ==
    \A n \in 1..Len(fileLines) : fileLines[n] \in KeyLines \cup {LineComment, LineBlank}

\* C6: after key lines in one context, the list under each key holds one
\* node per declaration of the key, in declaration order, each with the
\* declared value; a key never declared is not stored.
C6_RepeatedKeys ==
    (ppc \in {"reading", "returned"} /\ OnlyKeyLines) =>
        \A key \in {<<"a">>, <<"b">>} :
            LET decl == DeclaredValues(fileLines, key)
                found == TreeGetItem(nodes, RootRef, key)
            IN  IF decl = <<>> THEN ~found.ok
                ELSE /\ found.ok
                     /\ Len(found.val) = Len(decl)
                     /\ \A n \in 1..Len(decl) : nodes[found.val[n]].value = decl[n]
                     /\ \A n, m \in 1..Len(decl) : n < m => found.val[n] < found.val[m]

C6_Witness ==
    /\ ppc = "returned"
    /\ fileLines = <<LineA1, LineBQuoted, LineA2Comment, LineA>>
    /\ Len(TreeGetItem(nodes, RootRef, <<"a">>).val) = 3

\* the depth of open contexts after a stream of lines
RECURSIVE Depth(_)
Depth(lines) ==
    IF lines = <<>> THEN 0
    ELSE Depth(SubSeq(lines, 1, Len(lines) - 1))
         + (CASE lines[Len(lines)] \in {LineOpen, LineA \o <<" ","{">>,
                                       LineA1 \o <<" ","{">>, LineB \o <<"{">>} -> 1
              [] lines[Len(lines)] = LineClose -> -1
              [] OTHER -> 0)

\* a "}" met at the root, or a context still open at the end
Unbalanced(lines) ==
    \/ \E n \in 1..Len(lines) :
          lines[n] = LineClose /\ Depth(SubSeq(lines, 1, n - 1)) = 0
    \/ Depth(lines) > 0

\* C7: read() never returns for a stream with a "}" at the root or with a
\* context that is never closed.
C7_MalformedRejected ==
    ppc = "returned" => ~Unbalanced(fileLines)

\* C18: whenever read() takes a "{" line and goes on, the new context is a
\* node of the tree whose parent is the previous context, and it is the node
\* the most recent key line of that context created.
C18_OpenBindsToLastKey ==
    [][(ppc = "reading" /\ fileLines' = Append(fileLines, LineOpen) /\ ppc' = "reading") =>
          /\ ctx' \in 2..Len(nodes)
          /\ nodes[ctx'].parent = ctx
          /\ \A m \in 1..Len(nodes) : nodes[m].parent = ctx => m <= ctx']_vars

=============================================================================
